---- MODULE Spec2Model ----
(***************************************************************************)
(* Model of the house price prediction service (src/main.py): the          *)
(* module-level artifact load, and the /predict handler that scales area,  *)
(* derives four features, orders the 16 columns and calls the model.       *)
(***************************************************************************)
EXTENDS Integers, Sequences, FiniteSets, TLC

VARIABLES
    modelFile,   \* what model.pkl holds on disk
    scalerFile,  \* what scaler.pkl holds on disk
    phase,       \* position of the module-level code of lines 16-20
    model,       \* the global `model`
    scaler,      \* the global `scaler`
    pc,          \* pc[r]: position of request r inside predict
    rec,         \* rec[r]: the HouseData of request r
    df,          \* df[r]: the local DataFrame of request r
    X,           \* X[r]: the frame request r handed to model.predict
    log,         \* log[r]: the steps request r has run, with their outcome
    resp,        \* resp[r]: the payload request r returned
    failed,      \* some earlier request ended in the except branch
    conc         \* conc[r]: another request was inside predict during r's call

vars ==
    <<modelFile, scalerFile, phase, model, scaler, pc, rec, df, X, log, resp,
      failed, conc>>

(***************************************************************************)
(* Bounds.                                                                 *)
(***************************************************************************)
\* Number of requests the serving harness may run concurrently.
NumReqs == 2

Reqs == 1..NumReqs

(***************************************************************************)
(* Numbers.  A number is c0 + c1 * 2^62 + c2 * 2^124 with 0 <= c0 < 2^62   *)
(* (every c0 below stays under 2^31).  An int64 column holds c2 = 0 and    *)
(* c1 in -2..1: the range -2^63 .. 2^63 - 1.                               *)
(***************************************************************************)
Num(a, b, c) == [c0 |-> a, c1 |-> b, c2 |-> c]

Small(n) == Num(n, 0, 0)

\* 2^62, which pydantic's int accepts and pandas stores in an int64 column.
Big == Num(0, 1, 0)

\* float('inf'), which pydantic's float accepts.
Inf == [c0 |-> 0, c1 |-> 0, c2 |-> 0, inf |-> TRUE]

IsFinite(x) == "inf" \notin DOMAIN x

\* Exact arithmetic (no width).
NumAdd(a, b) == Num(a.c0 + b.c0, a.c1 + b.c1, a.c2 + b.c2)

\* Exact product of two numbers below 2^124 (c2 = 0).
NumMul(a, b) == Num(a.c0 * b.c0, a.c0 * b.c1 + a.c1 * b.c0, a.c1 * b.c1)

NumScale(k, a) == Num(k * a.c0, k * a.c1, k * a.c2)

\* f[i] + ... + f[n] of integers.
RECURSIVE IntSumFrom(_, _)
IntSumFrom(f, i) == IF i > Len(f) THEN 0 ELSE f[i] + IntSumFrom(f, i + 1)

\* The exact sum of a sequence of numbers, coefficient by coefficient.
NumSum(s) ==
    Num(IntSumFrom([i \in 1..Len(s) |-> s[i].c0], 1),
        IntSumFrom([i \in 1..Len(s) |-> s[i].c1], 1),
        IntSumFrom([i \in 1..Len(s) |-> s[i].c2], 1))

\* Two's complement wraparound of an int64 result: modulo 2^64 = 4 * 2^62,
\* into -2^63 .. 2^63 - 1.
Wrap64(a) == Num(a.c0, ((a.c1 + 2) % 4) - 2, 0)

\* numpy's elementwise int64 operations, which wrap silently.
Int64Add(a, b) == Wrap64(NumAdd(a, b))

Int64Mul(a, b) == Wrap64(NumMul(a, b))

\* The sum of an int64 row: every addition wraps, so the result is the
\* exact sum modulo 2^64.
Int64Sum(s) == Wrap64(NumSum(s))

\* float64 product of a float64 and an int64 column; exact on the values the
\* records hold (small integers), and float64 does not wrap.
Float64Mul(a, b) == NumMul(a, b)

(***************************************************************************)
(* Sequences.                                                              *)
(***************************************************************************)
Range(s) == {s[i] : i \in 1..Len(s)}

(***************************************************************************)
(* HouseData and the column lists of main.py.                              *)
(***************************************************************************)
\* The fields of HouseData in declaration order, the order of data.dict().
HouseDataFields ==
    <<"area", "bedrooms", "bathrooms", "stories", "parking",
      "furnishingstatus", "mainroad_yes", "guestroom_yes",
      "basement_yes", "hotwaterheating_yes", "airconditioning_yes",
      "prefarea_yes">>

\* Fault variant of feature_order: the last two names in the order the code
\* computes them.
feature_order_as_computed ==
    <<"area", "bedrooms", "bathrooms", "stories", "parking",
      "furnishingstatus", "mainroad_yes", "guestroom_yes",
      "basement_yes", "hotwaterheating_yes", "airconditioning_yes",
      "prefarea_yes", "area_bedrooms", "stories_bathrooms",
      "amenities_count", "luxury_index">>

feature_order ==
    <<"area", "bedrooms", "bathrooms", "stories", "parking",
      "furnishingstatus", "mainroad_yes", "guestroom_yes",
      "basement_yes", "hotwaterheating_yes", "airconditioning_yes",
      "prefarea_yes", "area_bedrooms", "stories_bathrooms",
      "luxury_index", "amenities_count">>

amenity_cols ==
    <<"mainroad_yes", "guestroom_yes", "basement_yes",
      "hotwaterheating_yes", "airconditioning_yes", "prefarea_yes">>

HouseData(a, bed, bath, st, park, furn, mr, gr, bs, hw, ac, pa) ==
    [area |-> a, bedrooms |-> bed, bathrooms |-> bath, stories |-> st,
     parking |-> park, furnishingstatus |-> furn, mainroad_yes |-> mr,
     guestroom_yes |-> gr, basement_yes |-> bs, hotwaterheating_yes |-> hw,
     airconditioning_yes |-> ac, prefarea_yes |-> pa]

(***************************************************************************)
(* DataFrames of one row: the column names in order, and the row's value   *)
(* under each name.                                                        *)
(***************************************************************************)
NoFrame == [cols |-> << >>, val |-> << >>]

\* pd.DataFrame([data.dict()])
Frame(data) == [cols |-> HouseDataFields, val |-> data]

\* df[name] = v: overwrite in place, or append a new last column.
SetCol(d, name, v) ==
    IF name \in DOMAIN d.val
    THEN [cols |-> d.cols, val |-> [d.val EXCEPT ![name] = v]]
    ELSE [cols |-> Append(d.cols, name), val |-> d.val @@ (name :> v)]

\* df[names]
Select(d, names) ==
    [cols |-> names, val |-> [n \in Range(names) |-> d.val[n]]]

\* The row as the positional vector a fitted estimator reads.
Values(d) == [i \in 1..Len(d.cols) |-> d.val[d.cols[i]]]

(***************************************************************************)
(* Outcomes of calls that may raise, and Python's exception classes.       *)
(***************************************************************************)
Ok(v) == [ok |-> TRUE, out |-> v]

Raise(t, m) == [ok |-> FALSE, exc |-> [type |-> t, msg |-> m]]

\* The classes an exception of class t is an instance of.
Ancestors(t) == {t, "Exception"}

\* Fault variant of Catches: `except ValueError as e`.
CatchesOnlyValueError(e) == e.type = "ValueError"

\* `except Exception as e` of predict.

Catches(e) == "Exception" \in Ancestors(e.type)

(***************************************************************************)
(* The two artifacts.  A file is missing, corrupt, or holds a pickled      *)
(* object; the objects are black boxes offering transform and predict.     *)
(***************************************************************************)
Unbound == "unbound"

\* identity: transform(x) = x; affine: transform(x) = 2x + 1; foreign: an
\* object that unpickles but has no transform.
ScalerFiles == {"missing", "corrupt", "identity", "affine", "foreign"}

\* sum: predict returns the sum of the vector; weighted: predict returns
\* the sum of i * vector[i]; mismatch: an estimator that unpickles but
\* rejects the frame.
ModelFiles == {"missing", "corrupt", "sum", "weighted", "mismatch"}

\* joblib.load(path)
JoblibLoad(file) ==
    CASE file = "missing" -> Raise("FileNotFoundError", "No such file or directory")
      [] file = "corrupt" -> Raise("UnpicklingError", "invalid load key")
      [] OTHER -> Ok(file)

ScaleValue(s, x) ==
    IF s = "identity" THEN x ELSE NumAdd(NumScale(2, x), Small(1))

\* scaler.transform(frame): a fitted scaler of one feature validates its
\* input (one column, finite values) and maps each value.
ScalerTransform(s, d) ==
    CASE s = "foreign" ->
            Raise("AttributeError", "object has no attribute 'transform'")
      [] s # "foreign" /\ Len(d.cols) # 1 ->
            Raise("ValueError", "X has a different number of features than the scaler expects")
      [] s # "foreign" /\ Len(d.cols) = 1 /\ \E n \in Range(d.cols) : ~IsFinite(d.val[n]) ->
            Raise("ValueError", "Input X contains infinity")
      [] OTHER -> Ok([i \in 1..Len(d.cols) |-> ScaleValue(s, Values(d)[i])])

WeightedSum(v) == NumSum([i \in 1..Len(v) |-> NumScale(i, v[i])])

\* model.predict(frame): an array holding one prediction for the one row.
ModelPredict(m, d) ==
    CASE m = "mismatch" ->
            Raise("ValueError", "The feature names should match those that were passed during fit")
      [] m = "sum" -> Ok(<<NumSum(Values(d))>>)
      [] OTHER -> Ok(<<WeightedSum(Values(d))>>)

(***************************************************************************)
(* The steps of predict as functions of the frame.                         *)
(***************************************************************************)
\* The columns handed to the scaler and assigned back: df[['area']].
\* Fault variant of scaled_cols: bedrooms scaled along with area.
scaled_cols_with_bedrooms == <<"area", "bedrooms">>

scaled_cols == <<"area">>

\* df[names] = vals
RECURSIVE AssignCols(_, _, _)
AssignCols(d, names, vals) ==
    IF names = << >> THEN d
    ELSE AssignCols(SetCol(d, Head(names), Head(vals)), Tail(names), Tail(vals))

\* df[amenity_cols].sum(axis=1)
AmenitiesCount(d) == Int64Sum([i \in 1..Len(amenity_cols) |-> d.val[amenity_cols[i]]])

LuxuryIndex(d) ==
    Int64Add(Int64Add(Int64Add(d.val["airconditioning_yes"],
                               d.val["hotwaterheating_yes"]),
                      d.val["guestroom_yes"]),
             d.val["basement_yes"])

\* The feature engineering block: four assignments to names the frame does
\* not hold yet, each appending a column computed from the raw columns.
DeriveFeatures(d) ==
    [cols |-> d.cols \o <<"area_bedrooms", "stories_bathrooms",
                          "amenities_count", "luxury_index">>,
     val  |-> d.val @@
              [n \in {"area_bedrooms", "stories_bathrooms",
                      "amenities_count", "luxury_index"} |->
                 CASE n = "area_bedrooms" ->
                         Float64Mul(d.val["area"], d.val["bedrooms"])
                   [] n = "stories_bathrooms" ->
                         Int64Mul(d.val["stories"], d.val["bathrooms"])
                   [] n = "amenities_count" -> AmenitiesCount(d)
                   [] n = "luxury_index" -> LuxuryIndex(d)]]

PredictionPayload(v) == [prediction |-> v]

\* Fault variant of ErrorPayload: a default prediction beside the error.
ErrorPayloadWithDefault(e) == [error |-> e.msg, prediction |-> Small(0)]

ErrorPayload(e) == [error |-> e.msg]

NoPayload == << >>

\* predict as a function of the artifacts and one record.
PredictAlone(m, s, data) ==
    LET d0 == Frame(data)
        t  == ScalerTransform(s, Select(d0, scaled_cols))
    IN  IF ~t.ok THEN ErrorPayload(t.exc)
        ELSE LET d1 == AssignCols(d0, scaled_cols, t.out)
                 d2 == Select(DeriveFeatures(d1), feature_order)
                 p  == ModelPredict(m, d2)
             IN  IF p.ok THEN PredictionPayload(p.out[1])
                 ELSE ErrorPayload(p.exc)

(***************************************************************************)
(* The records the requests carry.                                         *)
(***************************************************************************)
\* The record of the documented example.
ExampleRecord ==
    HouseData(Small(1000), Small(2), Small(1), Small(1), Small(1), Small(1),
              Small(1), Small(0), Small(0), Small(0), Small(1), Small(0))

Flags == {Small(0), Small(1)}

\* Every combination of the six amenity flags.
FlagRecords ==
    {[ExampleRecord EXCEPT !["mainroad_yes"] = mr, !["guestroom_yes"] = gr,
                           !["basement_yes"] = bs, !["hotwaterheating_yes"] = hw,
                           !["airconditioning_yes"] = ac, !["prefarea_yes"] = pa] :
        mr \in Flags, gr \in Flags, bs \in Flags, hw \in Flags, ac \in Flags,
        pa \in Flags}

\* Amenity fields outside {0, 1}, which nothing enforces.
WideFlagRecords ==
    {[ExampleRecord EXCEPT !["mainroad_yes"] = mr, !["guestroom_yes"] = gr,
                           !["prefarea_yes"] = pa] :
        mr \in {Small(0), Small(2), Big}, gr \in {Small(0), Big},
        pa \in {Small(0), Small(3)}}

\* The fields the arithmetic reads, zero included.
ArithRecords ==
    {[ExampleRecord EXCEPT !["area"] = a, !["bedrooms"] = bed,
                           !["stories"] = st, !["bathrooms"] = bath] :
        a \in {Small(0), Small(3), Small(1000), Inf},
        bed \in {Small(0), Small(2)},
        st \in {Small(0), Small(1), Small(3), Big},
        bath \in {Small(0), Small(1), Small(2)}}

\* The two fields no derived feature reads.
PlainRecords ==
    {[ExampleRecord EXCEPT !["parking"] = park, !["furnishingstatus"] = furn] :
        park \in {Small(0), Small(1), Small(3)},
        furn \in {Small(0), Small(1), Small(2)}}

Records == FlagRecords \cup WideFlagRecords \cup ArithRecords \cup PlainRecords

\* The records of the concurrent runs.
ConcRecords ==
    {ExampleRecord,
     [ExampleRecord EXCEPT !["area"] = Inf],
     [ExampleRecord EXCEPT !["area"] = Small(3), !["mainroad_yes"] = Small(0),
                           !["stories"] = Small(3)],
     [ExampleRecord EXCEPT !["bedrooms"] = Small(0), !["prefarea_yes"] = Small(1)]}

(***************************************************************************)
(* Startup: the module-level code.                                         *)
(***************************************************************************)
Init ==
    /\ modelFile \in ModelFiles
    /\ scalerFile \in ScalerFiles
    /\ phase = "load_model"
    /\ model = Unbound
    /\ scaler = Unbound
    /\ pc = [r \in Reqs |-> "idle"]
    /\ rec = [r \in Reqs |-> << >>]
    /\ df = [r \in Reqs |-> NoFrame]
    /\ X = [r \in Reqs |-> NoFrame]
    /\ log = [r \in Reqs |-> << >>]
    /\ resp = [r \in Reqs |-> NoPayload]
    /\ failed = FALSE
    /\ conc = [r \in Reqs |-> FALSE]

\* model = joblib.load("model.pkl"), or the RuntimeError of the except branch.
LoadModel ==
    /\ phase = "load_model"
    /\ LET l == JoblibLoad(modelFile)
       IN  IF l.ok
           THEN model' = l.out /\ phase' = "load_scaler"
           ELSE model' = model /\ phase' = "aborted"
    /\ UNCHANGED <<modelFile, scalerFile, scaler, pc, rec, df, X, log, resp, failed, conc>>

\* Fault variant of LoadScaler: the failed load is swallowed and the service
\* comes up without a scaler.
LoadScalerLenient ==
    /\ phase = "load_scaler"
    /\ LET l == JoblibLoad(scalerFile)
       IN  IF l.ok
           THEN scaler' = l.out /\ phase' = "serving"
           ELSE scaler' = scaler /\ phase' = "serving"
    /\ UNCHANGED <<modelFile, scalerFile, model, pc, rec, df, X, log, resp, failed, conc>>

\* scaler = joblib.load("scaler.pkl"), or the RuntimeError of the except branch.
LoadScaler ==
    /\ phase = "load_scaler"
    /\ LET l == JoblibLoad(scalerFile)
       IN  IF l.ok
           THEN scaler' = l.out /\ phase' = "serving"
           ELSE scaler' = scaler /\ phase' = "aborted"
    /\ UNCHANGED <<modelFile, scalerFile, model, pc, rec, df, X, log, resp, failed, conc>>

(***************************************************************************)
(* predict, one action per step.                                           *)
(***************************************************************************)
\* Request r is inside predict.
InFlight(r) == pc[r] \in {"scale", "derive", "assemble", "invoke"}

Entry(step, ok, args) == [step |-> step, ok |-> ok, args |-> args]

\* An exception raised inside the try block: the except branch returns the
\* error payload, and an exception it does not catch leaves predict.
Except(r, e) ==
    IF Catches(e)
    THEN /\ pc' = [pc EXCEPT ![r] = "done"]
         /\ resp' = [resp EXCEPT ![r] = ErrorPayload(e)]
         /\ failed' = TRUE
    ELSE /\ pc' = [pc EXCEPT ![r] = "crashed"]
         /\ resp' = resp
         /\ failed' = failed

\* Fault variant of Receive: df is one module-level frame, which every call
\* overwrites.
ReceiveShared(r, data) ==
    /\ phase = "serving"
    /\ pc[r] \in {"idle", "done"}
    /\ pc' = [pc EXCEPT ![r] = "scale"]
    /\ rec' = [rec EXCEPT ![r] = data]
    /\ df' = [q \in Reqs |-> Frame(data)]
    /\ X' = [X EXCEPT ![r] = NoFrame]
    /\ log' = [log EXCEPT ![r] = << >>]
    /\ resp' = [resp EXCEPT ![r] = NoPayload]
    /\ conc' = [q \in Reqs |->
                    IF q = r THEN \E o \in Reqs \ {r} : InFlight(o)
                    ELSE conc[q] \/ InFlight(q)]
    /\ UNCHANGED <<modelFile, scalerFile, phase, model, scaler, failed>>

\* The harness calls predict(data); df = pd.DataFrame([data.dict()]).
Receive(r, data) ==
    /\ phase = "serving"
    /\ pc[r] \in {"idle", "done"}
    /\ pc' = [pc EXCEPT ![r] = "scale"]
    /\ rec' = [rec EXCEPT ![r] = data]
    /\ df' = [df EXCEPT ![r] = Frame(data)]
    /\ X' = [X EXCEPT ![r] = NoFrame]
    /\ log' = [log EXCEPT ![r] = << >>]
    /\ resp' = [resp EXCEPT ![r] = NoPayload]
    /\ conc' = [q \in Reqs |->
                    IF q = r THEN \E o \in Reqs \ {r} : InFlight(o)
                    ELSE conc[q] \/ InFlight(q)]
    /\ UNCHANGED <<modelFile, scalerFile, phase, model, scaler, failed>>

\* Fault variant of Scale: a failed transform is ignored and predict goes on
\* with the unscaled area.
ScaleIgnoringFailure(r) ==
    /\ pc[r] = "scale"
    /\ LET t == ScalerTransform(scaler, Select(df[r], scaled_cols))
       IN  /\ log' = [log EXCEPT ![r] = Append(@, Entry("scale", t.ok, scaled_cols))]
           /\ df' = [df EXCEPT ![r] = IF t.ok THEN AssignCols(@, scaled_cols, t.out) ELSE @]
           /\ pc' = [pc EXCEPT ![r] = "derive"]
    /\ UNCHANGED <<modelFile, scalerFile, phase, model, scaler, rec, X, resp, failed, conc>>

\* df[['area']] = scaler.transform(df[['area']])
Scale(r) ==
    /\ pc[r] = "scale"
    /\ LET t == ScalerTransform(scaler, Select(df[r], scaled_cols))
       IN  /\ log' = [log EXCEPT ![r] = Append(@, Entry("scale", t.ok, scaled_cols))]
           /\ IF t.ok
              THEN /\ df' = [df EXCEPT ![r] = AssignCols(@, scaled_cols, t.out)]
                   /\ pc' = [pc EXCEPT ![r] = "derive"]
                   /\ UNCHANGED <<resp, failed>>
              ELSE /\ df' = df
                   /\ Except(r, t.exc)
    /\ UNCHANGED <<modelFile, scalerFile, phase, model, scaler, rec, X, conc>>

\* The feature engineering block.
Derive(r) ==
    /\ pc[r] = "derive"
    /\ df' = [df EXCEPT ![r] = DeriveFeatures(@)]
    /\ log' = [log EXCEPT ![r] = Append(@, Entry("derive", TRUE, << >>))]
    /\ pc' = [pc EXCEPT ![r] = "assemble"]
    /\ UNCHANGED <<modelFile, scalerFile, phase, model, scaler, rec, X, resp, failed, conc>>

\* df = df[feature_order]
Assemble(r) ==
    /\ pc[r] = "assemble"
    /\ df' = [df EXCEPT ![r] = Select(@, feature_order)]
    /\ log' = [log EXCEPT ![r] = Append(@, Entry("assemble", TRUE, << >>))]
    /\ pc' = [pc EXCEPT ![r] = "invoke"]
    /\ UNCHANGED <<modelFile, scalerFile, phase, model, scaler, rec, X, resp, failed, conc>>

\* pred = model.predict(df); return {"prediction": float(pred[0])}
Invoke(r) ==
    /\ pc[r] = "invoke"
    /\ X' = [X EXCEPT ![r] = df[r]]
    /\ LET p == ModelPredict(model, df[r])
       IN  /\ log' = [log EXCEPT ![r] = Append(@, Entry("invoke", p.ok, df[r].cols))]
           /\ IF p.ok
              THEN /\ resp' = [resp EXCEPT ![r] = PredictionPayload(p.out[1])]
                   /\ pc' = [pc EXCEPT ![r] = "done"]
                   /\ failed' = failed
              ELSE Except(r, p.exc)
    /\ UNCHANGED <<modelFile, scalerFile, phase, model, scaler, rec, df, conc>>

(***************************************************************************)
(* Spec: the service with one request at a time, over Records.             *)
(* SpecConc: NumReqs requests interleaved step by step, over ConcRecords.  *)
(***************************************************************************)
Next ==
    \/ LoadModel
    \/ LoadScaler
    \/ \E data \in Records : Receive(1, data)
    \/ Scale(1)
    \/ Derive(1)
    \/ Assemble(1)
    \/ Invoke(1)

Spec == Init /\ [][Next]_vars

NextConc ==
    \/ LoadModel
    \/ LoadScaler
    \/ \E r \in Reqs : \E data \in ConcRecords : Receive(r, data)
    \/ \E r \in Reqs : Scale(r)
    \/ \E r \in Reqs : Derive(r)
    \/ \E r \in Reqs : Assemble(r)
    \/ \E r \in Reqs : Invoke(r)

SpecConc == Init /\ [][NextConc]_vars

(***************************************************************************)
(* Properties.                                                             *)
(***************************************************************************)
Last(s) == s[Len(s)]

\* The record's value under each of the given names, in order.
Fields(data, names) == [i \in 1..Len(names) |-> data[names[i]]]

\* Request r has run the feature engineering block.
Derived(r) == "luxury_index" \in DOMAIN df[r].val

\* The eleven raw fields other than area.
OtherFields ==
    <<"bedrooms", "bathrooms", "stories", "parking", "furnishingstatus",
      "mainroad_yes", "guestroom_yes", "basement_yes", "hotwaterheating_yes",
      "airconditioning_yes", "prefarea_yes">>

\* C1: whenever predict reaches model.predict, the frame it hands over has
\* exactly 16 columns, named and valued in the documented order: the scaled
\* area, the eleven other raw fields, then area_bedrooms, stories_bathrooms,
\* luxury_index (15th) and amenities_count (16th).
C1_VectorOrder ==
    \A r \in Reqs :
        X[r] # NoFrame =>
            LET v == Values(X[r])
                d == DeriveFeatures(
                        SetCol(Frame(rec[r]), "area", ScaleValue(scaler, rec[r]["area"])))
            IN  /\ Len(v) = 16
                /\ X[r].cols =
                      <<"area", "bedrooms", "bathrooms", "stories", "parking",
                        "furnishingstatus", "mainroad_yes", "guestroom_yes",
                        "basement_yes", "hotwaterheating_yes",
                        "airconditioning_yes", "prefarea_yes", "area_bedrooms",
                        "stories_bathrooms", "luxury_index", "amenities_count">>
                /\ v[1] = ScaleValue(scaler, rec[r]["area"])
                /\ \A i \in 1..11 : v[i + 1] = rec[r][OtherFields[i]]
                /\ v[13] = d.val["area_bedrooms"]
                /\ v[14] = d.val["stories_bathrooms"]
                /\ v[15] = LuxuryIndex(d)
                /\ v[16] = AmenitiesCount(d)

\* C1 witness: a request that got a prediction from a vector whose 15th and
\* 16th elements differ.
C1_Witness ==
    \E r \in Reqs :
        /\ pc[r] = "done"
        /\ DOMAIN resp[r] = {"prediction"}
        /\ Values(X[r])[15] # Values(X[r])[16]

\* C2: in the frame predict builds, amenities_count is the sum of the six
\* amenity fields of the record and luxury_index the sum of
\* airconditioning_yes, hotwaterheating_yes, guestroom_yes and basement_yes,
\* for every record; luxury_index is what it would be with mainroad_yes and
\* prefarea_yes set to 0.
C2_AmenitySums ==
    \A r \in Reqs :
        Derived(r) =>
            /\ df[r].val["amenities_count"] = NumSum(Fields(rec[r], amenity_cols))
            /\ df[r].val["luxury_index"] =
                  NumSum(Fields(rec[r], <<"airconditioning_yes", "hotwaterheating_yes",
                                          "guestroom_yes", "basement_yes">>))
            /\ df[r].val["luxury_index"] =
                  LuxuryIndex(Frame([rec[r] EXCEPT !["mainroad_yes"] = Small(0),
                                                   !["prefarea_yes"] = Small(0)]))

\* C3: predict calls the scaler's transform exactly once per request, on the
\* area column alone; the other eleven raw fields keep the record's values
\* in the frame and in the vector handed to the model; with the identity
\* scaler the area element of the vector is the record's area.
C3_ScaleAreaOnly ==
    \A r \in Reqs :
        LET scales == {i \in 1..Len(log[r]) : log[r][i].step = "scale"}
        IN  /\ Cardinality(scales) <= 1
            /\ pc[r] \in {"derive", "assemble", "invoke", "done"} =>
                  Cardinality(scales) = 1
            /\ \A i \in scales : log[r][i].args = <<"area">>
            /\ pc[r] \in {"derive", "assemble", "invoke"} =>
                  \A i \in 1..11 : df[r].val[OtherFields[i]] = rec[r][OtherFields[i]]
            /\ X[r] # NoFrame =>
                  /\ \A i \in 1..11 : X[r].val[OtherFields[i]] = rec[r][OtherFields[i]]
                  /\ scaler = "identity" => X[r].val["area"] = rec[r]["area"]

\* C3 witness: a request served under a scaler that changes area, whose
\* vector holds the changed area and the other raw fields unchanged.
C3_Witness ==
    \E r \in Reqs :
        /\ pc[r] = "done"
        /\ DOMAIN resp[r] = {"prediction"}
        /\ scaler = "affine"
        /\ X[r].val["area"] # rec[r]["area"]
        /\ X[r].val["bedrooms"] = rec[r]["bedrooms"]

\* C4: in the frame predict builds, area_bedrooms is the scaled area times
\* bedrooms and stories_bathrooms is stories times bathrooms, for every
\* combination of values.
C4_Products ==
    \A r \in Reqs :
        Derived(r) =>
            /\ df[r].val["area"] = ScaleValue(scaler, rec[r]["area"])
            /\ df[r].val["area_bedrooms"] =
                  NumMul(ScaleValue(scaler, rec[r]["area"]), rec[r]["bedrooms"])
            /\ df[r].val["stories_bathrooms"] =
                  NumMul(rec[r]["stories"], rec[r]["bathrooms"])

\* C5: with the identity scaler and the model that sums its vector, the
\* prediction is the sum of the 12 raw fields plus area * bedrooms,
\* stories * bathrooms, luxury_index and amenities_count; for the
\* documented record the vector is [1000,2,1,1,1,1,1,0,0,0,1,0,2000,1,1,2]
\* and the prediction 3012.
C5_StubPrediction ==
    \A r \in Reqs :
        (pc[r] = "done" /\ scaler = "identity" /\ model = "sum"
            /\ IsFinite(rec[r]["area"])) =>
            /\ DOMAIN resp[r] = {"prediction"}
            /\ resp[r]["prediction"] =
                  NumSum(<<NumSum(Fields(rec[r], HouseDataFields)),
                           NumMul(rec[r]["area"], rec[r]["bedrooms"]),
                           NumMul(rec[r]["stories"], rec[r]["bathrooms"]),
                           NumSum(Fields(rec[r], <<"airconditioning_yes",
                                                   "hotwaterheating_yes",
                                                   "guestroom_yes", "basement_yes">>)),
                           NumSum(Fields(rec[r], amenity_cols))>>)
            /\ rec[r] = ExampleRecord =>
                  /\ Values(X[r]) =
                        <<Small(1000), Small(2), Small(1), Small(1), Small(1),
                          Small(1), Small(1), Small(0), Small(0), Small(0),
                          Small(1), Small(0), Small(2000), Small(1), Small(1),
                          Small(2)>>
                  /\ resp[r]["prediction"] = Small(3012)

Loadable(file) == JoblibLoad(file).ok

\* C6: if either artifact fails to load, startup aborts and no request is
\* ever served; a request is handled only with both artifacts loaded; the
\* aborted startup takes no further step (no retry), and a startup that has
\* not ended always has its next load to run.
C6_FailFast ==
    /\ (~Loadable(modelFile) \/ ~Loadable(scalerFile)) =>
          /\ phase # "serving"
          /\ \A r \in Reqs : pc[r] = "idle" /\ resp[r] = NoPayload
    /\ (\E r \in Reqs : pc[r] # "idle") =>
          phase = "serving" /\ model # Unbound /\ scaler # Unbound
    /\ phase = "serving" => model = modelFile /\ scaler = scalerFile
    /\ phase = "aborted" => ~ENABLED Next
    /\ phase \in {"load_model", "load_scaler"} => ENABLED (LoadModel \/ LoadScaler)

\* C6 witness: the model loaded, the scaler failed to load, and startup
\* aborted with exactly one artifact bound.
C6_Witness ==
    /\ phase = "aborted"
    /\ model # Unbound
    /\ scaler = Unbound

\* C7: a failure inside predict never leaves predict: the request ends with
\* an error payload holding the exception's message; and once a request
\* has failed, the artifacts are what startup loaded and every request
\* that ends returns what predict returns for its record alone.
C7_FailureContained ==
    \A r \in Reqs :
        /\ pc[r] # "crashed"
        /\ (log[r] # << >> /\ ~Last(log[r]).ok) =>
              /\ pc[r] = "done"
              /\ DOMAIN resp[r] = {"error"}
              /\ failed
        /\ failed =>
              /\ model = modelFile /\ scaler = scalerFile
              /\ pc[r] = "done" => resp[r] = PredictAlone(modelFile, scalerFile, rec[r])

\* C7 witness: a request that got a prediction after an earlier request
\* failed.
C7_Witness ==
    \E r \in Reqs :
        /\ failed
        /\ pc[r] = "done"
        /\ DOMAIN resp[r] = {"prediction"}

StepNames == <<"scale", "derive", "assemble", "invoke">>

OnePayload(r) ==
    /\ pc[r] \in {"idle", "scale", "derive", "assemble", "invoke", "done"}
    /\ InFlight(r) => resp[r] = NoPayload
    /\ pc[r] = "done" =>
          \/ /\ DOMAIN resp[r] = {"prediction"}
             /\ Len(log[r]) = 4
             /\ \A i \in 1..4 : log[r][i].ok
          \/ /\ DOMAIN resp[r] = {"error"}
             /\ \E i \in 1..Len(log[r]) : ~log[r][i].ok

\* The position of a call: the four steps, then the return.
Position(p) ==
    CASE p = "scale" -> 1 [] p = "derive" -> 2 [] p = "assemble" -> 3
      [] p = "invoke" -> 4 [] OTHER -> 5

\* A step of a call inside predict moves it to a later position (so the
\* call ends within four steps), and the payload of a call that has ended
\* stays what it is until the next call.
MovesOn(r) ==
    /\ (InFlight(r) /\ pc'[r] # pc[r]) => Position(pc'[r]) > Position(pc[r])
    /\ (pc[r] = "done" /\ pc'[r] = "done") => resp'[r] = resp[r]

\* C8: every call of predict moves on to its end and returns once; until it
\* ends it has returned nothing, and when it ends it has returned a payload
\* of exactly one key: "prediction" when all four steps ran without
\* failure, "error" when a step failed.
C8_SinglePayload ==
    /\ [](\A r \in Reqs : OnePayload(r))
    /\ [][\A r \in Reqs : MovesOn(r)]_vars

\* C8 witness: a request whose model call failed and that returned the
\* error payload.
C8_Witness ==
    \E r \in Reqs :
        /\ pc[r] = "done"
        /\ Len(log[r]) = 4
        /\ ~log[r][4].ok
        /\ DOMAIN resp[r] = {"error"}

\* C9: once the service serves, the globals model and scaler hold what
\* startup loaded, and under every interleaving of the requests' steps each
\* request that ends returns what predict returns for its record alone.
C9_Isolation ==
    /\ phase = "serving" => model = modelFile /\ scaler = scalerFile
    /\ \A r \in Reqs :
          pc[r] = "done" => resp[r] = PredictAlone(model, scaler, rec[r])

\* C9 witness: two requests with different records whose calls overlapped,
\* both ended, one with a prediction.
C9_Witness ==
    \E r \in Reqs : \E q \in Reqs \ {r} :
        /\ pc[r] = "done" /\ pc[q] = "done"
        /\ conc[r] /\ conc[q]
        /\ rec[r] # rec[q]
        /\ DOMAIN resp[r] = {"prediction"}

\* C10: the steps a request has run are a prefix of scale, derive,
\* assemble, invoke, and only the last of them can have failed: the model is
\* invoked at most once, after a successful transform, and never after a
\* failed step.
C10_StepOrder ==
    \A r \in Reqs :
        /\ Len(log[r]) <= 4
        /\ \A i \in 1..Len(log[r]) :
              /\ log[r][i].step = StepNames[i]
              /\ i < Len(log[r]) => log[r][i].ok
        /\ X[r] # NoFrame <=> Len(log[r]) = 4
        /\ InFlight(r) => pc[r] = StepNames[Len(log[r]) + 1]

\* C10 witness: a request whose scaling failed and that ended without the
\* model being invoked.
C10_Witness ==
    \E r \in Reqs :
        /\ pc[r] = "done"
        /\ Len(log[r]) = 1
        /\ ~log[r][1].ok
        /\ X[r] = NoFrame
====
